---------------------------- MODULE Spec2Model ----------------------------
(***************************************************************************)
(* Pi Shield analysis pipeline: the worker's queue consumer, job status    *)
(* machine, result store, media pipelines and credibility scoring          *)
(* (backend/worker/worker.py), with the API's producer side                *)
(* (backend/api/main.py, upload_file).                                     *)
(*                                                                         *)
(* Scores and confidences are counted in hundredths (0.80 is 80), so the   *)
(* arithmetic is exact decimal arithmetic; Python's binary floats differ   *)
(* from it by rounding errors below 1e-15.                                 *)
(***************************************************************************)
EXTENDS Integers, Sequences, FiniteSets, TLC

VARIABLES
    analyses,    \* the jobs table: analysis id -> row, or NoRow
    reports,     \* the reports table: a set of rows
    queue,       \* the Redis list "pi_jobs"
    inFlight,    \* uploads whose row is inserted and whose rpush is still to come
    faults,      \* number of faults so far: payloads that are no descriptor, database
                 \* writes that raised, workers interrupted
    pc,          \* per worker: position in Worker.start / Worker.process_job
    job,         \* per worker: the decoded descriptor being processed
    run,         \* per worker: what the pipeline returned or raised
    err,         \* per worker: str(e) of the exception process_job's handler caught
    loopErr,     \* per worker: the last exception caught by the consumer loop
    statusLog,   \* history: per analysis id, the status values written to its row
    reportLog,   \* history: per analysis id, the number of report writes
    mode,        \* which pure-function harness is running ("system" for the worker system)
    input,       \* pure-function harnesses: the input drawn
    output       \* pure-function harnesses: the result computed, or NoOutput

vars == <<analyses, reports, queue, inFlight, faults, pc, job, run,
          err, loopErr, statusLog, reportLog, mode, input, output>>

\* the harness variables, which the worker system leaves alone
harness == <<mode, input, output>>

-----------------------------------------------------------------------------
(* Bounds of the model *)

MaxJobs == 2        \* analysis ids ever created
NumWorkers == 2     \* worker processes on the same queue
MaxFaults == 1      \* faults in one run: bad payloads, failing writes, interrupts
MaxFaces == 2       \* faces in one annotate_image response
MaxFrames == 100    \* frames ffmpeg extracts from one video
MaxHits == 4        \* AI-pattern matches in one text
MaxSentences == 2   \* sentences in one text
MaxWords == 61      \* words in one text
MaxSampled == 2     \* sampled frames in a video Signal Set

(* Program constants *)

MAX_VIDEO_DURATION == 300

JobIds == 1..MaxJobs
Workers == 1..NumWorkers

NoRow == [status |-> "absent"]
NoJob == [analysis_id |-> 0, input_type |-> "none"]
NoRun == [kind |-> "none"]
NoOutput == [kind |-> "none"]
None == -1          \* Python's None where a number is expected (a NULL column)

-----------------------------------------------------------------------------
(* Small helpers *)

Max2(a, b) == IF a >= b THEN a ELSE b
Min2(a, b) == IF a <= b THEN a ELSE b

RECURSIVE SeqSum(_)
SeqSum(s) == IF s = <<>> THEN 0 ELSE Head(s) + SeqSum(Tail(s))

RECURSIVE SeqMax(_)
SeqMax(s) == IF Len(s) = 1 THEN s[1] ELSE Max2(Head(s), SeqMax(Tail(s)))

RECURSIVE SeqMin(_)
SeqMin(s) == IF Len(s) = 1 THEN s[1] ELSE Min2(Head(s), SeqMin(Tail(s)))

RECURSIVE Concat(_)
Concat(ss) == IF ss = <<>> THEN <<>> ELSE Head(ss) \o Concat(Tail(ss))

SeqsUpTo(S, n) == UNION {[1..k -> S] : k \in 0..n}

\* min(1.0, score): the clamp without its lower bound
ClampAbove(score) == Min2(100, score)

\* max(0.0, min(1.0, score)), in hundredths
Clamp(score) == Max2(0, Min2(100, score))


-----------------------------------------------------------------------------
(* The Signal Provider's vocabulary *)

\* google.cloud.vision Likelihood, by enum value 0..5; .name gives the string
LikelihoodNames ==
    <<"UNKNOWN", "VERY_UNLIKELY", "UNLIKELY", "POSSIBLE", "LIKELY", "VERY_LIKELY">>

Likelihoods == 0..5

LikelihoodName(l) == LikelihoodNames[l + 1]

\* Python's  "LIKELY" in name : a substring test on the enum's name
ContainsLIKELY(name) ==
    name \in {"VERY_UNLIKELY", "UNLIKELY", "LIKELY", "VERY_LIKELY"}

\* Label descriptions the provider may return, and description.lower()
Descriptions == {"Cat", "Computer", "Generated art"}

Lower(d) ==
    CASE d = "Cat" -> "cat"
      [] d = "Computer" -> "computer"
      [] d = "Generated art" -> "generated art"
      [] OTHER -> d

ArtificialTerms == <<"artificial", "synthetic", "generated", "fake", "computer">>

\* Python's  term in text  for the lower-cased descriptions above
TermIn(term, text) ==
    \/ term = "computer" /\ text = "computer"
    \/ term = "generated" /\ text = "generated art"

\* Confidences the provider may report, in hundredths
Confidences == {50, 90}

ProviderFaces == [detection_confidence : Confidences, blurred_likelihood : Likelihoods]

process_face_annotation(face) ==
    [detection_confidence |-> face.detection_confidence,
     blurred_likelihood |-> LikelihoodName(face.blurred_likelihood)]

process_safe_search(safe_search) == [spoof |-> LikelihoodName(safe_search.spoof)]

MapFaces(fs) == [i \in DOMAIN fs |-> process_face_annotation(fs[i])]

ConfSum(faces) == SeqSum([i \in DOMAIN faces |-> faces[i].detection_confidence])

-----------------------------------------------------------------------------
(* Credibility scoring: MediaProcessor._calculate_*_credibility *)

\* a rule that reports its factor whether or not it subtracted
RuleAlwaysReported(triggered, penalty, factor) ==
    [penalty |-> IF triggered THEN penalty ELSE 0, factors |-> <<factor>>]

\* one rule of a scoring function: subtract and report when triggered
Rule(triggered, penalty, factor) ==
    [penalty |-> IF triggered THEN penalty ELSE 0,
     factors |-> IF triggered THEN <<factor>> ELSE <<>>]

blurred_count(faces) ==
    Cardinality({i \in DOMAIN faces : ContainsLIKELY(faces[i].blurred_likelihood)})

is_artificial(label) ==
    \E i \in DOMAIN ArtificialTerms : TermIn(ArtificialTerms[i], Lower(label.description))

\* only the largest penalty of the triggered rules is subtracted
PenaltiesLargest(rules) ==
    IF rules = <<>> THEN 0 ELSE SeqMax([i \in DOMAIN rules |-> rules[i].penalty])

Penalties(rules) == SeqSum([i \in DOMAIN rules |-> rules[i].penalty])

Factors(rules) == Concat([i \in DOMAIN rules |-> rules[i].factors])

artificial_labels_of(labels) == SelectSeq(labels, is_artificial)

\* the four image rules, in the order the code applies them
image_rules(vision_results) ==
    LET faces == vision_results.faces
        blurred_faces == blurred_count(faces)
    IN  << Rule(faces # <<>> /\ ConfSum(faces) < 70 * Len(faces), 30,
                "Low face detection confidence"),
           Rule(faces # <<>> /\ blurred_faces > 0, 20,
                ToString(blurred_faces) \o " blurred faces detected"),
           Rule(vision_results.safe_search.spoof \in {"LIKELY", "VERY_LIKELY"}, 40,
                "Potential spoofing detected"),
           Rule(artificial_labels_of(vision_results.labels) # <<>>, 30,
                "Artificial content indicators") >>

calculate_image_credibility(vision_results, image_info) ==
    LET rules == image_rules(vision_results)
        score == 80 - Penalties(rules)
    IN  [credibility_score |-> Clamp(score),
         explanation |->
            [primary_factors |-> Factors(rules),
             face_count |-> Len(vision_results.faces),
             artificial_labels |-> Len(artificial_labels_of(vision_results.labels)),
             image_quality |-> IF image_info.width > 1000 THEN "high" ELSE "medium"]]
\* the video scorer looking for the seven patterns of process_text
ai_phrases_of_text ==
    <<"as an ai", "i don't have personal", "i cannot provide", "as a language model",
      "i'm not able to", "i don't have the ability", "as an artificial intelligence">>

\* AI-disclaimer phrases the video scorer looks for in transcript.lower()
ai_phrases == <<"as an ai", "i cannot", "i don't have personal">>

\* Transcripts the speech provider may return, and transcript.lower()
Transcripts == {"", "Hello world", "As an AI I think", "as a language model", "I cannot say"}

LowerTranscript(t) ==
    CASE t = "Hello world" -> "hello world"
      [] t = "As an AI I think" -> "as an ai i think"
      [] t = "I cannot say" -> "i cannot say"
      [] OTHER -> t

\* Python's  phrase in text  for the lower-cased transcripts above
PhraseIn(phrase, text) ==
    \/ phrase = "as an ai" /\ text = "as an ai i think"
    \/ phrase = "i cannot" /\ text = "i cannot say"
    \/ phrase = "as a language model" /\ text = "as a language model"

\* len(transcript.split())
WordCount(t) ==
    CASE t = "" -> 0
      [] t = "Hello world" -> 2
      [] t = "As an AI I think" -> 5
      [] t = "as a language model" -> 4
      [] t = "I cannot say" -> 3

\* the video rules with an unknown width (0) left out of the resolution rule
video_rules_known_width(frame_results, transcript, video_info) ==
    LET face_counts == [i \in DOMAIN frame_results |-> Len(frame_results[i].faces)]
        all_faces == Concat([i \in DOMAIN frame_results |-> frame_results[i].faces])
    IN  << Rule(face_counts # <<>> /\ SeqMax(face_counts) - SeqMin(face_counts) > 2, 20,
                "Inconsistent face detection across frames"),
           Rule(face_counts # <<>> /\ all_faces # <<>>
                    /\ ConfSum(all_faces) < 60 * Len(all_faces), 30,
                "Low average face detection confidence"),
           Rule(transcript # ""
                    /\ \E i \in DOMAIN ai_phrases :
                          PhraseIn(ai_phrases[i], LowerTranscript(transcript)), 40,
                "AI-generated speech patterns detected"),
           Rule(video_info.width > 0 /\ video_info.width < 720, 10,
                "Low resolution video") >>

\* the four video rules, in the order the code applies them
video_rules(frame_results, transcript, video_info) ==
    LET face_counts == [i \in DOMAIN frame_results |-> Len(frame_results[i].faces)]
        all_faces == Concat([i \in DOMAIN frame_results |-> frame_results[i].faces])
    IN  << Rule(face_counts # <<>> /\ SeqMax(face_counts) - SeqMin(face_counts) > 2, 20,
                "Inconsistent face detection across frames"),
           Rule(face_counts # <<>> /\ all_faces # <<>>
                    /\ ConfSum(all_faces) < 60 * Len(all_faces), 30,
                "Low average face detection confidence"),
           Rule(transcript # ""
                    /\ \E i \in DOMAIN ai_phrases :
                          PhraseIn(ai_phrases[i], LowerTranscript(transcript)), 40,
                "AI-generated speech patterns detected"),
           Rule(video_info.width < 720, 10, "Low resolution video") >>

calculate_video_credibility(frame_results, transcript, video_info) ==
    LET rules == video_rules(frame_results, transcript, video_info)
        score == 75 - Penalties(rules)
    IN  [credibility_score |-> Clamp(score),
         explanation |->
            [primary_factors |-> Factors(rules),
             frame_count_analyzed |-> Len(frame_results),
             transcript_length |-> IF transcript # "" THEN WordCount(transcript) ELSE 0,
             video_duration |-> video_info.duration]]

\* the text rules with the AI-pattern penalty not capped at 0.6
text_rules_uncapped(stats, ai_patterns) ==
    LET wc == stats.word_count
        sc == Max2(1, stats.sentence_count)
    IN  << Rule(ai_patterns # <<>>, Len(ai_patterns) * 20, "AI-generated patterns found"),
           IF wc > 0 /\ wc > 30 * sc
           THEN Rule(TRUE, 10, "Unusually long sentences")
           ELSE Rule(wc > 0 /\ wc < 5 * sc, 10, "Unusually short sentences"),
           Rule(wc > 10 /\ 10 * stats.unique_words < 3 * wc, 20,
                "High word repetition detected") >>

\* the text rules with their thresholds included: an average of 30 or of 5 and a
\* unique-word ratio of 0.3 trigger
text_rules_inclusive(stats, ai_patterns) ==
    LET wc == stats.word_count
        sc == Max2(1, stats.sentence_count)
    IN  << Rule(ai_patterns # <<>>, Min2(60, Len(ai_patterns) * 20),
                "AI-generated patterns found"),
           IF wc > 0 /\ wc >= 30 * sc
           THEN Rule(TRUE, 10, "Unusually long sentences")
           ELSE Rule(wc > 0 /\ wc <= 5 * sc, 10, "Unusually short sentences"),
           Rule(wc > 10 /\ 10 * stats.unique_words <= 3 * wc, 20,
                "High word repetition detected") >>

\* the text rules without the word_count > 0 guard of the sentence-length rule
text_rules_unguarded(stats, ai_patterns) ==
    LET wc == stats.word_count
        sc == Max2(1, stats.sentence_count)
    IN  << Rule(ai_patterns # <<>>, Min2(60, Len(ai_patterns) * 20),
                "AI-generated patterns found"),
           IF wc > 30 * sc
           THEN Rule(TRUE, 10, "Unusually long sentences")
           ELSE Rule(wc < 5 * sc, 10, "Unusually short sentences"),
           Rule(wc > 10 /\ 10 * stats.unique_words < 3 * wc, 20,
                "High word repetition detected") >>

\* the three text rules; stats.unique_words is len(set(text.lower().split()))
text_rules(stats, ai_patterns) ==
    LET wc == stats.word_count
        sc == Max2(1, stats.sentence_count)
    IN  << Rule(ai_patterns # <<>>, Min2(60, Len(ai_patterns) * 20),
                "AI-generated patterns found"),
           IF wc > 0 /\ wc > 30 * sc
           THEN Rule(TRUE, 10, "Unusually long sentences")
           ELSE Rule(wc > 0 /\ wc < 5 * sc, 10, "Unusually short sentences"),
           Rule(wc > 10 /\ 10 * stats.unique_words < 3 * wc, 20,
                "High word repetition detected") >>

calculate_text_credibility(stats, ai_patterns) ==
    LET rules == text_rules(stats, ai_patterns)
        score == 90 - Penalties(rules)
        factors == Factors(rules)
    IN  [credibility_score |-> Clamp(score),
         explanation |->
            [primary_factors |-> factors,
             text_length |-> stats.word_count,
             ai_patterns_count |-> Len(ai_patterns),
             structure_analysis |-> IF factors = <<>> THEN "normal" ELSE "suspicious"]]
-----------------------------------------------------------------------------
(* The media pipelines: MediaProcessor.process_image / process_video /    *)
(* process_text.  A pipeline is a function of what its external calls do   *)
(* (the env record); "invoked" and "detect_calls" record which external    *)
(* calls it made.                                                          *)

NoResults == [credibility_score |-> None]

Raised(kind, env, error, invoked, detect_calls) ==
    [kind |-> kind, env |-> env, raised |-> TRUE, error |-> error,
     invoked |-> invoked, detect_calls |-> detect_calls, results |-> NoResults]

Returned(kind, env, results, invoked, detect_calls) ==
    [kind |-> kind, env |-> env, raised |-> FALSE, error |-> "",
     invoked |-> invoked, detect_calls |-> detect_calls, results |-> results]

MAX_IMAGE_WIDTH == 1920
MAX_IMAGE_HEIGHT == 1080

\* img.thumbnail(MAX_IMAGE_SIZE): shrink to fit, keeping the aspect ratio
thumbnail(size) ==
    IF size[1] * MAX_IMAGE_HEIGHT >= size[2] * MAX_IMAGE_WIDTH
    THEN <<MAX_IMAGE_WIDTH, Max2(1, (size[2] * MAX_IMAGE_WIDTH) \div size[1])>>
    ELSE <<Max2(1, (size[1] * MAX_IMAGE_HEIGHT) \div size[2]), MAX_IMAGE_HEIGHT>>

process_image(env) ==
    IF ~env.fetch_ok THEN Raised("image", env, "RetrievalError", {"fetch"}, 0)
    ELSE IF ~env.open_ok THEN Raised("image", env, "UnidentifiedImageError", {"fetch"}, 0)
    ELSE IF ~env.annotate_ok
    THEN Raised("image", env, "ProviderError", {"fetch", "detect"}, 1)
    ELSE
      LET size == IF env.size[1] > MAX_IMAGE_WIDTH \/ env.size[2] > MAX_IMAGE_HEIGHT
                  THEN thumbnail(env.size) ELSE env.size
          image_info == [width |-> size[1], height |-> size[2]]
          vision_results ==
              [labels |-> [i \in DOMAIN env.labels |-> [description |-> env.labels[i]]],
               faces |-> MapFaces(env.faces),
               safe_search |-> process_safe_search([spoof |-> env.spoof])]
          scored == calculate_image_credibility(vision_results, image_info)
      IN  Returned("image", env,
                   [credibility_score |-> scored.credibility_score,
                    explanation |-> scored.explanation,
                    vision_results |-> vision_results,
                    image_info |-> image_info],
                   {"fetch", "detect"}, 1)

\* what _get_video_info returns when it catches the probe's failure
ZeroedInfo ==
    [duration |-> 0, size |-> 0, width |-> 0, height |-> 0, fps |-> 0, codec |-> "unknown"]

\* ways the probe can go: "ok", or the exception it ends with
\*   CalledProcessError  ffprobe exits non-zero
\*   JSONDecodeError     its output is not JSON
\*   KeyError            "format", "streams" or a stream's "codec_type" is missing
\*   FileNotFoundError   the ffprobe binary is missing
\*   ValueError          duration, size, width or height is not a number
\*   ZeroDivisionError   r_frame_rate is "0/0"
ProbeFailures ==
    {"CalledProcessError", "JSONDecodeError", "KeyError",
     "FileNotFoundError", "ValueError", "ZeroDivisionError"}

ProbeCaught == {"CalledProcessError", "JSONDecodeError", "KeyError"}

\* _get_video_info: [raised, error, info]
get_video_info(env) ==
    IF env.probe = "ok"
    THEN [raised |-> FALSE, error |-> "",
          info |-> [duration |-> env.duration, size |-> 1000, width |-> env.width,
                    height |-> 480, fps |-> 25, codec |-> "h264"]]
    ELSE IF env.probe \in ProbeCaught
    THEN [raised |-> FALSE, error |-> "", info |-> ZeroedInfo]
    ELSE [raised |-> TRUE, error |-> env.probe, info |-> ZeroedInfo]

\* _extract_frames: the sorted frame paths (frame i is frame_000i.jpg), [] on
\* CalledProcessError; a missing ffmpeg binary (FileNotFoundError) is not caught
extract_frames(env) ==
    IF env.frames = "ok"
    THEN [raised |-> FALSE, error |-> "", frame_paths |-> [i \in 1..env.n |-> i]]
    ELSE IF env.frames = "CalledProcessError"
    THEN [raised |-> FALSE, error |-> "", frame_paths |-> <<>>]
    ELSE [raised |-> TRUE, error |-> env.frames, frame_paths |-> <<>>]

\* frame_paths[:10]: the first ten frames
sample_frames_first_ten(frame_paths) == SubSeq(frame_paths, 1, Min2(10, Len(frame_paths)))

\* frame_paths[::max(1, len(frame_paths) // 10)]
sample_frames(frame_paths) ==
    LET n == Len(frame_paths)
        stride == Max2(1, n \div 10)
    IN  [k \in 1..((n + stride - 1) \div stride) |-> frame_paths[1 + (k - 1) * stride]]

\* faces the provider reports for a frame, by the video's face profile
FrameFaces(profile, frame) ==
    LET f(c) == [detection_confidence |-> c, blurred_likelihood |-> 1]
    IN  CASE profile = "none" -> <<>>
          [] profile = "steady" -> <<f(90)>>
          [] profile = "low" -> <<f(50)>>
          [] profile = "crowd_first" -> IF frame = 1 THEN <<f(90), f(90), f(90)>> ELSE <<>>

Profiles == {"none", "steady", "low", "crowd_first"}

\* the per-frame detection loop's result for one sampled frame
frame_result(env, frame) ==
    [frame |-> frame, faces |-> MapFaces(FrameFaces(env.profile, frame))]

\* the loop goes on to the next frame when a detection call fails
detection_failed_skipped(env, sample) == FALSE

\* whether self.vision_client.annotate_image raises for one of the sampled frames:
\* the loop has no try, so the first failing call ends process_video
detection_failed(env, sample) == env.detect_fail_at \in 1..Len(sample)

\* the cap compared with >= : a video of exactly the cap is rejected
too_long_at_cap(video_info) == video_info.duration >= MAX_VIDEO_DURATION

\* if video_info["duration"] > Config.MAX_VIDEO_DURATION
too_long(video_info) == video_info.duration > MAX_VIDEO_DURATION

process_video(env) ==
    IF ~env.fetch_ok THEN Raised("video", env, "RetrievalError", {"fetch"}, 0)
    ELSE
    LET probed == get_video_info(env)
        video_info == probed.info
    IN
    IF probed.raised THEN Raised("video", env, probed.error, {"fetch", "probe"}, 0)
    ELSE IF too_long(video_info)
    THEN Raised("video", env, "Video too long", {"fetch", "probe"}, 0)
    ELSE
    LET extracted == extract_frames(env) IN
    IF extracted.raised
    THEN Raised("video", env, extracted.error, {"fetch", "probe", "frames"}, 0)
    ELSE IF env.audio = "FileNotFoundError"
    THEN Raised("video", env, env.audio, {"fetch", "probe", "frames", "audio"}, 0)
    ELSE
    LET sample == sample_frames(extracted.frame_paths)
        failed == detection_failed(env, sample)
        calls == IF failed THEN env.detect_fail_at ELSE Len(sample)
        detect == IF calls > 0 THEN {"detect"} ELSE {}
        before == {"fetch", "probe", "frames", "audio"} \cup detect
    IN
    IF failed THEN Raised("video", env, "ProviderError", before, calls)
    ELSE
    LET frame_results == [k \in DOMAIN sample |-> frame_result(env, sample[k])]
        has_audio == env.audio_size > 0
        transcript == IF has_audio /\ env.transcribe # "ProviderError"
                      THEN env.transcribe ELSE ""
        scored == calculate_video_credibility(frame_results, transcript, video_info)
    IN  Returned("video", env,
                 [credibility_score |-> scored.credibility_score,
                  explanation |-> scored.explanation,
                  video_info |-> video_info,
                  frame_analysis |-> frame_results,
                  transcript |-> transcript],
                 before \cup (IF has_audio THEN {"transcribe"} ELSE {}), calls)

\* the phrases process_text searches text_content.lower() for
ai_patterns ==
    <<"as an ai", "i don't have personal", "i cannot provide", "as a language model",
      "i'm not able to", "i don't have the ability", "as an artificial intelligence">>

process_text(env) ==
    IF ~env.fetch_ok THEN Raised("text", env, "RetrievalError", {"fetch"}, 0)
    ELSE IF ~env.decode_ok THEN Raised("text", env, "UnicodeDecodeError", {"fetch"}, 0)
    ELSE
      LET text_stats == [word_count |-> env.word_count,
                         sentence_count |-> env.sentence_count,
                         unique_words |-> env.unique_words]
          pattern_matches == env.matches
          scored == calculate_text_credibility(text_stats, pattern_matches)
      IN  Returned("text", env,
                   [credibility_score |-> scored.credibility_score,
                    explanation |-> scored.explanation,
                    text_stats |-> text_stats,
                    ai_patterns_found |-> pattern_matches],
                   {"fetch"}, 0)
-----------------------------------------------------------------------------
(* What the external calls of one job may do: the env records the          *)
(* pipelines are run on.                                                   *)

PF(c, l) == [detection_confidence |-> c, blurred_likelihood |-> l]

ImageEnv(fetch_ok, open_ok, annotate_ok, size, faces, spoof, labels) ==
    [fetch_ok |-> fetch_ok, open_ok |-> open_ok, annotate_ok |-> annotate_ok,
     size |-> size, faces |-> faces, spoof |-> spoof, labels |-> labels]

ImageOk(size, faces, spoof, labels) == ImageEnv(TRUE, TRUE, TRUE, size, faces, spoof, labels)

ImageFailures ==
    {ImageEnv(FALSE, TRUE, TRUE, <<800, 600>>, <<>>, 1, <<>>),
     ImageEnv(TRUE, FALSE, TRUE, <<800, 600>>, <<>>, 1, <<>>),
     ImageEnv(TRUE, TRUE, FALSE, <<800, 600>>, <<>>, 1, <<>>)}

ImageEnvs ==
    ImageFailures \cup
    {ImageOk(size, faces, spoof, labels) :
        size \in {<<800, 600>>, <<3840, 2160>>},
        faces \in {<<>>, <<PF(90, 1), PF(90, 1)>>, <<PF(50, 5)>>, <<PF(90, 3)>>},
        spoof \in {1, 4},
        labels \in {<<>>, <<"Cat", "Computer">>}}

VideoEnv(fetch_ok, probe, duration, width, frames, n, audio, audio_size, detect_fail_at, profile, transcribe) ==
    [fetch_ok |-> fetch_ok, probe |-> probe, duration |-> duration, width |-> width,
     frames |-> frames, n |-> n, audio |-> audio, audio_size |-> audio_size,
     detect_fail_at |-> detect_fail_at, profile |-> profile, transcribe |-> transcribe]

\* a video whose every external call succeeds: 3 frames, one steady face, plain speech
PlainVideo ==
    VideoEnv(TRUE, "ok", MAX_VIDEO_DURATION, 1280, "ok", 3, "ok", 1000, 0, "steady",
             "Hello world")

\* the probe's part of an env: its outcome, and the duration and width it reports
ProbeCases ==
    {[probe |-> "ok", duration |-> d, width |-> w] :
        d \in {0, MAX_VIDEO_DURATION, MAX_VIDEO_DURATION + 1}, w \in {640, 720, 1280}}
    \cup {[probe |-> p, duration |-> 0, width |-> 0] : p \in ProbeFailures}

\* frame extraction's part: its outcome, the frames extracted, the first failing
\* detection call (0: none) and the faces in the frames
FrameCases ==
    {[frames |-> f, n |-> 0, detect_fail_at |-> 0, profile |-> "none"] :
        f \in {"ok", "CalledProcessError", "FileNotFoundError"}}
    \cup {[frames |-> "ok", n |-> n, detect_fail_at |-> k, profile |-> p] :
            n \in {3, 12}, k \in {0, 2}, p \in {"steady", "low", "crowd_first"}}

\* the audio's part: extraction's outcome, the size of audio.wav afterwards (None:
\* no file) and what transcription gives
AudioCases ==
    {[audio |-> "ok", audio_size |-> 0, transcribe |-> ""],
     [audio |-> "CalledProcessError", audio_size |-> None, transcribe |-> ""],
     [audio |-> "FileNotFoundError", audio_size |-> None, transcribe |-> ""]}
    \cup {[audio |-> a, audio_size |-> 1000, transcribe |-> t] :
            a \in {"ok", "CalledProcessError"},
            t \in {"ProviderError", "Hello world", "As an AI I think"}}

VideoOf(p, f, a) ==
    VideoEnv(TRUE, p.probe, p.duration, p.width, f.frames, f.n, a.audio, a.audio_size,
             f.detect_fail_at, f.profile, a.transcribe)

VideoEnvs ==
    {[PlainVideo EXCEPT !.fetch_ok = FALSE]}
    \cup {VideoOf(p, f, a) : p \in ProbeCases, f \in FrameCases, a \in AudioCases}

TextEnv(fetch_ok, decode_ok, word_count, sentence_count, unique_words, hits) ==
    [fetch_ok |-> fetch_ok, decode_ok |-> decode_ok, word_count |-> word_count,
     sentence_count |-> sentence_count, unique_words |-> unique_words,
     matches |-> [i \in 1..hits |-> "as an ai"]]

\* the counts a text can have: every sentence and every match needs words
TextShape(wc, sc, uw, hits) ==
    /\ uw <= wc
    /\ (wc > 0) = (uw > 0)
    /\ sc > 0 => wc > 0
    /\ hits > 0 => wc >= 2 * hits + 1

TextEnvs ==
    {TextEnv(FALSE, TRUE, 0, 0, 0, 0), TextEnv(TRUE, FALSE, 0, 0, 0, 0)}
    \cup {TextEnv(TRUE, TRUE, wc, sc, uw, h) :
            wc \in {0, 4, 12, 40}, sc \in {0, 1}, uw \in {0, 3, 12}, h \in {0, 1, 4}}

ValidTextEnv(env) ==
    TextShape(env.word_count, env.sentence_count, env.unique_words, Len(env.matches))

\* the envs the many-worker system is run on: a video that is scored and one that
\* is over the duration cap
SystemEnvs(kind) ==
    IF kind = "video"
    THEN {PlainVideo, [PlainVideo EXCEPT !.duration = MAX_VIDEO_DURATION + 1]}
    ELSE {}

JobEnvs(kind) ==
    CASE kind = "image" -> ImageEnvs
      [] kind = "video" -> VideoEnvs
      [] kind = "text" -> {e \in TextEnvs : ValidTextEnv(e)}
      [] OTHER -> {}

Envs(kind) == IF mode = "system" THEN SystemEnvs(kind) ELSE JobEnvs(kind)

process(kind, env) ==
    CASE kind = "image" -> process_image(env)
      [] kind = "video" -> process_video(env)
      [] kind = "text" -> process_text(env)
-----------------------------------------------------------------------------
(* The jobs table, the reports table and the queue *)

ActiveJobs == IF mode = "system" THEN JobIds ELSE {1}
ActiveWorkers == IF mode = "system" THEN Workers ELSE {1}

\* media types validate_file can return (the keys of ALLOWED_EXTENSIONS)
MediaTypes == {"image", "video", "text"}

\* the uploads run: every media type for the single job, videos in the many-worker
\* system, where the media type only decides which pipeline runs
UploadTypes == IF mode = "system" THEN {"video"} ELSE MediaTypes

\* a payload on "pi_jobs": json.dumps of a descriptor, or anything else
Descriptor(id, input_type) ==
    [decodable |-> TRUE, has_keys |-> TRUE, analysis_id |-> id, input_type |-> input_type]

\* the analysis ids of the descriptors on a queue
QueuedIds(q) == {q[i].analysis_id : i \in {k \in DOMAIN q : q[k].has_keys}}

BadPayloads ==
    {[decodable |-> FALSE, has_keys |-> FALSE, analysis_id |-> 0, input_type |-> "none"],
     [decodable |-> TRUE, has_keys |-> FALSE, analysis_id |-> 0, input_type |-> "none"]}

\* the next unused analysis id (uuid4 never repeats)
FreshId(id) ==
    /\ id \in ActiveJobs
    /\ analyses[id] = NoRow
    /\ \A k \in ActiveJobs : k < id => analyses[k] # NoRow

\* INSERT INTO analyses (..., status, created_at): finished_at stays NULL
InsertAnalysis(id, input_type) ==
    /\ analyses' = [analyses EXCEPT ![id] =
            [status |-> "queued", finished_at |-> "NULL", input_type |-> input_type]]
    /\ statusLog' = [statusLog EXCEPT ![id] = <<"queued">>]

\* finished_at written for done only
finished_at_done_only(status) == IF status = "done" THEN "utcnow" ELSE "NULL"

\* the finished_at that _update_analysis_status writes with the status
finished_at_for(status) == IF status \in {"done", "failed"} THEN "utcnow" ELSE "NULL"

\* UPDATE analyses SET status = $1, finished_at = $2 WHERE id = $3
update_analysis_status(analysis_id, status) ==
    IF analyses[analysis_id] = NoRow
    THEN UNCHANGED <<analyses, statusLog>>
    ELSE /\ analyses' = [analyses EXCEPT ![analysis_id] =
                [@ EXCEPT !.status = status, !.finished_at = finished_at_for(status)]]
         /\ statusLog' = [statusLog EXCEPT ![analysis_id] = Append(@, status)]

\* the row an INSERT would add, and the ON CONFLICT (analysis_id) DO UPDATE
ReportRow(fresh, analysis_id, results) ==
    [id |-> fresh, analysis_id |-> analysis_id,
     credibility_score |-> results.credibility_score,
     explanation |-> results.explanation,
     artifacts |-> "{}", version |-> "v1.0", created_at |-> fresh]

\* INSERT without the ON CONFLICT clause, on a table without the unique key
insert_only(rows, new) == rows \cup {new}

\* INSERT ... ON CONFLICT (analysis_id) DO UPDATE SET credibility_score,
\* explanation, artifacts, version
upsert(rows, new) ==
    IF \E r \in rows : r.analysis_id = new.analysis_id
    THEN {IF r.analysis_id = new.analysis_id
          THEN [r EXCEPT !.credibility_score = new.credibility_score,
                         !.explanation = new.explanation,
                         !.artifacts = new.artifacts,
                         !.version = new.version]
          ELSE r : r \in rows}
    ELSE rows \cup {new}

\* uuid4() and utcnow() are fresh on every call: the k-th report write for analysis
\* id j gets the pair <<j, k>> as its id and as its timestamp
Fresh(analysis_id) == <<analysis_id, reportLog[analysis_id] + 1>>

\* _store_results
store_results(analysis_id, results) ==
    /\ reports' = upsert(reports, ReportRow(Fresh(analysis_id), analysis_id, results))
    /\ reportLog' = [reportLog EXCEPT ![analysis_id] = @ + 1]

\* the error report written with a score of zero in place of None
error_results_zero(e) ==
    [credibility_score |-> 0, explanation |-> [error |-> e, status |-> "failed"]]

\* what the failure handler stores
error_results(e) ==
    [credibility_score |-> None, explanation |-> [error |-> e, status |-> "failed"]]

-----------------------------------------------------------------------------
(* The producers *)

Running == mode \in {"system", "job"}

\* one more fault of the environment, while the run's budget lasts
Fault ==
    /\ faults < MaxFaults
    /\ faults' = faults + 1

\* upload_file with its two halves swapped: the descriptor is pushed first, the row
\* is not there yet
ApiInsertAfterPush(id, media_type) ==
    /\ Running
    /\ media_type \in UploadTypes
    /\ FreshId(id)
    /\ id \notin QueuedIds(queue)
    /\ queue' = Append(queue, Descriptor(id, media_type))
    /\ UNCHANGED <<analyses, statusLog, reports, reportLog, inFlight, pc, job, run, err,
                   loopErr, faults, harness>>

\* upload_file, first half: the row is recorded with status queued
ApiInsert(id, media_type) ==
    /\ Running
    /\ media_type \in UploadTypes
    /\ FreshId(id)
    /\ InsertAnalysis(id, media_type)
    /\ inFlight' = inFlight \cup {id}
    /\ UNCHANGED <<reports, reportLog, queue, pc, job, run, err, loopErr, faults, harness>>

\* upload_file, second half: rpush of the descriptor
ApiPush(id) ==
    /\ Running
    /\ id \in inFlight
    /\ queue' = Append(queue, Descriptor(id, analyses[id].input_type))
    /\ inFlight' = inFlight \ {id}
    /\ UNCHANGED <<analyses, statusLog, reports, reportLog, pc, job, run, err, loopErr,
                   faults, harness>>

\* upload_file, second half, when rpush raises: the request fails, the row stays
ApiPushFails(id) ==
    /\ Running
    /\ id \in inFlight
    /\ inFlight' = inFlight \ {id}
    /\ UNCHANGED <<analyses, statusLog, reports, reportLog, queue, pc, job, run, err,
                   loopErr, faults, harness>>

\* another producer: a payload that is no descriptor
ForeignPush(payload) ==
    /\ Running
    /\ payload \in BadPayloads
    /\ Fault
    /\ queue' = Append(queue, payload)
    /\ UNCHANGED <<analyses, statusLog, reports, reportLog, inFlight, pc, job, run, err,
                   loopErr, harness>>

\* another producer: a queued row and a descriptor of a kind the worker does not know
ForeignUpload(id) ==
    /\ Running
    /\ FreshId(id)
    /\ InsertAnalysis(id, "audio")
    /\ queue' = Append(queue, Descriptor(id, "audio"))
    /\ UNCHANGED <<reports, reportLog, inFlight, pc, job, run, err, loopErr, faults,
                   harness>>

-----------------------------------------------------------------------------
(* The worker: Worker.start's loop and Worker.process_job.  A database     *)
(* write either takes effect or raises and changes nothing.                *)

At(w, where) == Running /\ w \in ActiveWorkers /\ pc[w] = where

Goto(w, where) == pc' = [pc EXCEPT ![w] = where]

\* process_job's  except Exception as e
Catch(w, e) == err' = [err EXCEPT ![w] = e]

\* a loop whose handler leaves the loop (break) after logging
LoopCatchBreak(w, e) == Goto(w, "stopped") /\ loopErr' = [loopErr EXCEPT ![w] = e]

\* the loop's  except Exception as e: logger.error(...); sleep(5)
LoopCatch(w, e) == Goto(w, "caught") /\ loopErr' = [loopErr EXCEPT ![w] = e]

\* a database write raises (connection lost, pool exhausted, ...)
DbRaises == Fault

\* Dequeue with a read that leaves the item on the list (lindex for blpop)
DequeuePeek(w) ==
    /\ At(w, "blpop")
    /\ queue # <<>>
    /\ LET payload == Head(queue) IN
         /\ payload.decodable /\ payload.has_keys
         /\ Goto(w, "set_processing")
         /\ job' = [job EXCEPT ![w] = [analysis_id |-> payload.analysis_id,
                                       input_type |-> payload.input_type]]
    /\ UNCHANGED <<analyses, statusLog, reports, reportLog, queue, inFlight, run, err,
                   loopErr, faults, harness>>

\* Dequeue as a read followed by a separate remove: while another worker waits on
\* the list, it can read the same head before the remove
DequeueRace(w) ==
    /\ At(w, "blpop")
    /\ queue # <<>>
    /\ queue' = IF \E v \in ActiveWorkers \ {w} : pc[v] = "blpop" THEN queue ELSE Tail(queue)
    /\ LET payload == Head(queue) IN
         /\ payload.decodable /\ payload.has_keys
         /\ Goto(w, "set_processing")
         /\ job' = [job EXCEPT ![w] = [analysis_id |-> payload.analysis_id,
                                       input_type |-> payload.input_type]]
    /\ UNCHANGED <<analyses, statusLog, reports, reportLog, inFlight, run, err,
                   loopErr, faults, harness>>

\* Dequeue that removes an item only once it has been decoded: a payload that cannot
\* be decoded stays at the head of the list
DequeueAfterDecode(w) ==
    /\ At(w, "blpop")
    /\ queue # <<>>
    /\ LET payload == Head(queue) IN
         IF ~payload.decodable
         THEN LoopCatch(w, "JSONDecodeError") /\ UNCHANGED <<job, queue>>
         ELSE IF ~payload.has_keys
         THEN LoopCatch(w, "KeyError") /\ UNCHANGED job /\ queue' = Tail(queue)
         ELSE /\ Goto(w, "set_processing")
              /\ job' = [job EXCEPT ![w] = [analysis_id |-> payload.analysis_id,
                                            input_type |-> payload.input_type]]
              /\ queue' = Tail(queue)
              /\ UNCHANGED loopErr
    /\ UNCHANGED <<analyses, statusLog, reports, reportLog, inFlight, run, err, faults,
                   harness>>

\* blpop returned an item: json.loads, then process_job reads its two keys
Dequeue(w) ==
    /\ At(w, "blpop")
    /\ queue # <<>>
    /\ queue' = Tail(queue)
    /\ LET payload == Head(queue) IN
         IF ~payload.decodable
         THEN LoopCatch(w, "JSONDecodeError") /\ UNCHANGED job
         ELSE IF ~payload.has_keys
         THEN LoopCatch(w, "KeyError") /\ UNCHANGED job
         ELSE /\ Goto(w, "set_processing")
              /\ job' = [job EXCEPT ![w] = [analysis_id |-> payload.analysis_id,
                                            input_type |-> payload.input_type]]
              /\ UNCHANGED loopErr
    /\ UNCHANGED <<analyses, statusLog, reports, reportLog, inFlight, run, err, faults,
                   harness>>

\* blpop timed out: sleep(1) and try again
DequeueTimeout(w) ==
    /\ At(w, "blpop")
    /\ queue = <<>>
    /\ UNCHANGED vars

\* await self._update_analysis_status(analysis_id, "processing")
SetProcessing(w) ==
    /\ At(w, "set_processing")
    /\ \/ /\ update_analysis_status(job[w].analysis_id, "processing")
          /\ Goto(w, "pipeline")
          /\ UNCHANGED <<err, faults>>
       \/ /\ DbRaises
          /\ Goto(w, "set_failed")
          /\ Catch(w, "DatabaseError")
          /\ UNCHANGED <<analyses, statusLog>>
    /\ UNCHANGED <<reports, reportLog, queue, inFlight, job, run, loopErr, harness>>

\* what the pipeline returned is kept in results, what it raised is caught
Dispatch(w, r) ==
    /\ run' = [run EXCEPT ![w] = r]
    /\ IF r.raised
       THEN Goto(w, "set_failed") /\ Catch(w, r.error)
       ELSE Goto(w, "store_results") /\ UNCHANGED err

\* a dispatch whose last branch is a plain else: every input_type that is not image
\* or text is run as a video
PipelineElseVideo(w) ==
    /\ At(w, "pipeline")
    /\ LET input_type == job[w].input_type IN
         IF input_type \in {"image", "text"}
         THEN \E env \in Envs(input_type) : Dispatch(w, process(input_type, env))
         ELSE \E env \in Envs("video") : Dispatch(w, process("video", env))
    /\ UNCHANGED <<analyses, statusLog, reports, reportLog, queue, inFlight, job, loopErr,
                   faults, harness>>

\* the dispatch on input_type and the pipeline it selects
Pipeline(w) ==
    /\ At(w, "pipeline")
    /\ LET input_type == job[w].input_type IN
         IF input_type \in {"image", "video", "text"}
         THEN \E env \in Envs(input_type) : Dispatch(w, process(input_type, env))
         ELSE Dispatch(w, Raised(input_type, NoRun, "Unsupported input type", {}, 0))
    /\ UNCHANGED <<analyses, statusLog, reports, reportLog, queue, inFlight, job, loopErr,
                   faults, harness>>

\* process_job without its _store_results call: done is written with nothing stored
StoreResultsSkipped(w) ==
    /\ At(w, "store_results")
    /\ Goto(w, "set_done")
    /\ UNCHANGED <<analyses, statusLog, reports, reportLog, queue, inFlight, job, run,
                   err, loopErr, faults, harness>>

\* await self._store_results(analysis_id, results)
StoreResults(w) ==
    /\ At(w, "store_results")
    /\ \/ /\ store_results(job[w].analysis_id, run[w].results)
          /\ Goto(w, "set_done")
          /\ UNCHANGED <<err, faults>>
       \/ /\ DbRaises
          /\ Goto(w, "set_failed")
          /\ Catch(w, "DatabaseError")
          /\ UNCHANGED <<reports, reportLog>>
    /\ UNCHANGED <<analyses, statusLog, queue, inFlight, job, run, loopErr, harness>>

\* await self._update_analysis_status(analysis_id, "done")
SetDone(w) ==
    /\ At(w, "set_done")
    /\ \/ /\ update_analysis_status(job[w].analysis_id, "done")
          /\ Goto(w, "returned")
          /\ UNCHANGED <<err, faults>>
       \/ /\ DbRaises
          /\ Goto(w, "set_failed")
          /\ Catch(w, "DatabaseError")
          /\ UNCHANGED <<analyses, statusLog>>
    /\ UNCHANGED <<reports, reportLog, queue, inFlight, job, run, loopErr, harness>>

\* the handler's  await self._update_analysis_status(analysis_id, "failed")
SetFailed(w) ==
    /\ At(w, "set_failed")
    /\ \/ /\ update_analysis_status(job[w].analysis_id, "failed")
          /\ Goto(w, "store_error")
          /\ UNCHANGED <<loopErr, faults>>
       \/ /\ DbRaises
          /\ LoopCatch(w, "DatabaseError")
          /\ UNCHANGED <<analyses, statusLog>>
    /\ UNCHANGED <<reports, reportLog, queue, inFlight, job, run, err, harness>>

\* the handler's  await self._store_results(analysis_id, error_results)
StoreError(w) ==
    /\ At(w, "store_error")
    /\ \/ /\ store_results(job[w].analysis_id, error_results(err[w]))
          /\ Goto(w, "returned")
          /\ UNCHANGED <<loopErr, faults>>
       \/ /\ DbRaises
          /\ LoopCatch(w, "DatabaseError")
          /\ UNCHANGED <<reports, reportLog>>
    /\ UNCHANGED <<analyses, statusLog, queue, inFlight, job, run, err, harness>>

\* a loop that retries: a job that ended failed is pushed back onto the queue
LoopBackRetry(w) ==
    /\ Running /\ w \in ActiveWorkers
    /\ pc[w] \in {"returned", "caught"}
    /\ Goto(w, "blpop")
    /\ queue' = IF job[w] # NoJob /\ analyses[job[w].analysis_id] # NoRow
                   /\ analyses[job[w].analysis_id].status = "failed"
                THEN Append(queue, Descriptor(job[w].analysis_id, job[w].input_type))
                ELSE queue
    /\ job' = [job EXCEPT ![w] = NoJob]
    /\ run' = [run EXCEPT ![w] = NoRun]
    /\ err' = [err EXCEPT ![w] = ""]
    /\ UNCHANGED <<analyses, statusLog, reports, reportLog, inFlight, loopErr,
                   faults, harness>>

\* process_job returned, or the loop's handler has slept: the next turn of the loop
LoopBack(w) ==
    /\ Running /\ w \in ActiveWorkers
    /\ pc[w] \in {"returned", "caught"}
    /\ Goto(w, "blpop")
    /\ job' = [job EXCEPT ![w] = NoJob]
    /\ run' = [run EXCEPT ![w] = NoRun]
    /\ err' = [err EXCEPT ![w] = ""]
    /\ UNCHANGED <<analyses, statusLog, reports, reportLog, queue, inFlight, loopErr,
                   faults, harness>>

\* a stop that hands the job back: the descriptor of the job the worker holds is
\* pushed onto the queue again
InterruptRequeues(w) ==
    /\ Running /\ w \in ActiveWorkers
    /\ pc[w] # "stopped"
    /\ Fault
    /\ Goto(w, "stopped")
    /\ queue' = IF job[w] = NoJob THEN queue
                ELSE Append(queue, Descriptor(job[w].analysis_id, job[w].input_type))
    /\ job' = [job EXCEPT ![w] = NoJob]
    /\ run' = [run EXCEPT ![w] = NoRun]
    /\ err' = [err EXCEPT ![w] = ""]
    /\ UNCHANGED <<analyses, statusLog, reports, reportLog, inFlight, loopErr, harness>>

\* KeyboardInterrupt (or the process dying): the loop ends wherever it is
Interrupt(w) ==
    /\ Running /\ w \in ActiveWorkers
    /\ pc[w] # "stopped"
    /\ Fault
    /\ Goto(w, "stopped")
    /\ job' = [job EXCEPT ![w] = NoJob]
    /\ run' = [run EXCEPT ![w] = NoRun]
    /\ err' = [err EXCEPT ![w] = ""]
    /\ UNCHANGED <<analyses, statusLog, reports, reportLog, queue, inFlight, loopErr,
                   harness>>

-----------------------------------------------------------------------------
(* The system: uploads and workers on one queue *)

InitTables ==
    /\ analyses = [id \in JobIds |-> NoRow]
    /\ reports = {}
    /\ queue = <<>>
    /\ inFlight = {}
    /\ faults = 0
    /\ pc = [w \in Workers |-> "blpop"]
    /\ job = [w \in Workers |-> NoJob]
    /\ run = [w \in Workers |-> NoRun]
    /\ err = [w \in Workers |-> ""]
    /\ loopErr = [w \in Workers |-> ""]
    /\ statusLog = [id \in JobIds |-> <<>>]
    /\ reportLog = [id \in JobIds |-> 0]

Init ==
    /\ InitTables
    /\ mode = "system"
    /\ input = NoOutput
    /\ output = NoOutput

Producer ==
    \/ \E id \in JobIds, t \in MediaTypes : ApiInsert(id, t)
    \/ \E id \in JobIds : ApiPush(id)
    \/ \E id \in JobIds : ApiPushFails(id)
    \/ \E p \in BadPayloads : ForeignPush(p)
    \/ \E id \in JobIds : ForeignUpload(id)

WorkerStep(w) ==
    \/ Dequeue(w)
    \/ DequeueTimeout(w)
    \/ SetProcessing(w)
    \/ Pipeline(w)
    \/ StoreResults(w)
    \/ SetDone(w)
    \/ SetFailed(w)
    \/ StoreError(w)
    \/ LoopBack(w)
    \/ Interrupt(w)

Next == Producer \/ \E w \in Workers : WorkerStep(w)

Spec == Init /\ [][Next]_vars

\* what the pipelines of the system's jobs return or raise, tabulated
SystemRuns == {process("video", env) : env \in SystemEnvs("video")}

\* Pipeline(w) for the jobs of the system, on the tabulated outcomes: the awaited
\* pipeline call returns or raises
PipelineReturns(w) ==
    /\ At(w, "pipeline")
    /\ mode = "system"
    /\ IF job[w].input_type = "video"
       THEN \E r \in SystemRuns : Dispatch(w, r)
       ELSE Dispatch(w, Raised(job[w].input_type, NoRun, "Unsupported input type", {}, 0))
    /\ UNCHANGED <<analyses, statusLog, reports, reportLog, queue, inFlight, job, loopErr,
                   faults, harness>>

\* one turn of the  while True  loop of Worker.start, as long as nothing interrupts
\* it: every await of the loop and of process_job returns or raises
Turn(w) ==
    \/ Dequeue(w)
    \/ SetProcessing(w)
    \/ PipelineReturns(w)
    \/ StoreResults(w)
    \/ SetDone(w)
    \/ SetFailed(w)
    \/ StoreError(w)
    \/ LoopBack(w)

\* the system with workers that keep running: a worker that can take its next step
\* eventually takes it
SpecFair == Spec /\ \A w \in Workers : WF_vars(Turn(w))
-----------------------------------------------------------------------------
(* The scoring functions and the frame sampler on their own: an input is   *)
(* drawn, the function is applied once.                                    *)

\* what annotate_image may answer for an image
ImageResponses ==
    [faces : SeqsUpTo(ProviderFaces, MaxFaces),
     spoof : Likelihoods,
     labels : {<<>>, <<"Cat">>, <<"Computer">>, <<"Cat", "Generated art">>},
     width : {800, 1920}]

\* lines 93-107 of process_image: the Signal Set of a response, scored
score_image(response) ==
    calculate_image_credibility(
        [labels |-> [i \in DOMAIN response.labels |-> [description |-> response.labels[i]]],
         faces |-> MapFaces(response.faces),
         safe_search |-> process_safe_search([spoof |-> response.spoof])],
        [width |-> response.width])

\* the faces of one analysed frame
FrameFaceLists ==
    {MapFaces(fs) : fs \in {<<>>, <<PF(90, 1)>>, <<PF(50, 1)>>,
                            <<PF(90, 1), PF(90, 1), PF(90, 1)>>}}

VideoSignalSets ==
    [faces : SeqsUpTo(FrameFaceLists, MaxSampled),
     transcript : Transcripts,
     width : {0, 640, 719, 720, 1280}]

score_video(signals) ==
    calculate_video_credibility(
        [i \in DOMAIN signals.faces |-> [frame |-> i, faces |-> signals.faces[i]]],
        signals.transcript,
        [duration |-> 0, width |-> signals.width])

TextSignalSets ==
    {[word_count |-> wc, sentence_count |-> sc, unique_words |-> uw, hits |-> h] :
        wc \in 0..MaxWords, sc \in 0..MaxSentences, uw \in 0..MaxWords, h \in 0..MaxHits}

ValidTextSignals(t) == TextShape(t.word_count, t.sentence_count, t.unique_words, t.hits)

score_text(signals) ==
    calculate_text_credibility(
        [word_count |-> signals.word_count, sentence_count |-> signals.sentence_count,
         unique_words |-> signals.unique_words],
        [i \in 1..signals.hits |-> "as an ai"])



InitHarness ==
    /\ InitTables
    /\ mode = "function"
    /\ output = NoOutput
    /\ \/ \E r \in ImageResponses : input = [kind |-> "image", signals |-> r]
       \/ \E v \in VideoSignalSets : input = [kind |-> "video", signals |-> v]
       \/ \E t \in TextSignalSets :
             ValidTextSignals(t) /\ input = [kind |-> "text", signals |-> t]
       \/ \E n \in 0..MaxFrames : input = [kind |-> "frames", frame_paths |-> [i \in 1..n |-> i]]

Apply(kind, result) ==
    /\ mode = "function"
    /\ input.kind = kind
    /\ output = NoOutput
    /\ output' = [kind |-> kind, result |-> result]
    /\ UNCHANGED <<analyses, statusLog, reports, reportLog, queue, inFlight, faults, pc,
                   job, run, err, loopErr, mode, input>>

ScoreImage == Apply("image", score_image(input.signals))

ScoreVideo == Apply("video", score_video(input.signals))

ScoreText == Apply("text", score_text(input.signals))

SampleFrames == Apply("frames", sample_frames(input.frame_paths))

-----------------------------------------------------------------------------
(* One job, one worker: the same producers and the same worker, run on     *)
(* every env of every media type; and the functions on their own.          *)

InitJob ==
    /\ InitTables
    /\ mode = "job"
    /\ input = NoOutput
    /\ output = NoOutput

InitUnit == InitJob \/ InitHarness

NextUnit == Next \/ ScoreImage \/ ScoreVideo \/ ScoreText \/ SampleFrames

SpecUnit == InitUnit /\ [][NextUnit]_vars
-----------------------------------------------------------------------------
(* The claims *)

IsPrefix(s, t) == Len(s) <= Len(t) /\ \A i \in 1..Len(s) : s[i] = t[i]

Last(s) == s[Len(s)]

ReportsOf(id) == {r \in reports : r.analysis_id = id}

C2_PipelineErrorHandled ==
    \A w \in Workers :
        (run[w] # NoRun /\ run[w].raised) =>
            LET id == job[w].analysis_id IN
            /\ pc[w] \in {"set_failed", "store_error", "returned", "caught"}
            /\ analyses[id].status \in {"processing", "failed"}
            /\ err[w] = run[w].error
            /\ pc[w] = "returned" =>
                 /\ analyses[id].status = "failed"
                 /\ analyses[id].finished_at = "utcnow"
                 /\ \E r \in reports :
                      /\ ReportsOf(id) = {r}
                      /\ r.credibility_score = None
                      /\ r.explanation = [error |-> run[w].error, status |-> "failed"]
            /\ pc[w] = "caught" => loopErr[w] = "DatabaseError" /\ run[w].error # loopErr[w]

\* a pipeline raised during retrieval, extraction or scoring and process_job returned
C2_Witness ==
    \E w \in Workers :
        /\ run[w] # NoRun /\ run[w].raised
        /\ run[w].error \in {"RetrievalError", "ProviderError", "FileNotFoundError"}
        /\ pc[w] = "returned"

\* a step in which worker w catches an exception, in process_job or in the loop
CatchStep(w) ==
    \/ loopErr'[w] # loopErr[w]
    \/ err'[w] # err[w] /\ err'[w] # ""
    \/ pc[w] \in {"set_failed", "store_error"} /\ pc'[w] = "caught"

\* C3: a step in which a worker catches an exception of one job (raised by the
\* pipeline, by a status write, by a report write of the failure handler, or by a
\* descriptor that cannot be decoded or lacks a key) leaves the worker in a handler,
\* never stopped; from the loop's handler the worker goes back to the blocking
\* dequeue; and the only step that stops a worker changes no error record (it is
\* the interrupt).
C3_LoopSurvives ==
    [][\A w \in Workers :
          /\ CatchStep(w) => pc'[w] \in {"set_failed", "caught"}
          /\ (pc[w] \in {"caught", "returned"} /\ pc'[w] # pc[w])
                => pc'[w] \in {"blpop", "stopped"}
          /\ (pc[w] # "stopped" /\ pc'[w] = "stopped")
                => loopErr'[w] = loopErr[w] /\ faults' = faults + 1]_vars

\* a worker whose loop caught a failure earlier is processing a later job
C3_Witness ==
    \E w \in Workers :
        /\ loopErr[w] # ""
        /\ job[w] # NoJob
        /\ pc[w] \in {"pipeline", "store_results", "set_done", "returned"}

\* C4: every score the image, video and text scoring functions give to a Signal
\* Set lies in [0, 1] (0..100 hundredths), so does the score of every pipeline that
\* returned, and so does the score of every report of a job whose status is done.
C4_ScoreInRange ==
    /\ output.kind \in {"image", "video", "text"}
          => output.result.credibility_score \in 0..100
    /\ \A w \in Workers :
          (run[w] # NoRun /\ ~run[w].raised) => run[w].results.credibility_score \in 0..100
    /\ \A id \in JobIds :
          analyses[id].status = "done"
             => \A r \in ReportsOf(id) : r.credibility_score \in 0..100

\* an image on which all four rules trigger: 0.80 - 1.20 is clamped to 0
C4_Witness ==
    /\ output.kind = "image"
    /\ Len(output.result.explanation.primary_factors) = 4
    /\ output.result.credibility_score = 0

\* C5: the reports table holds at most one row per analysis_id, however many report
\* writes were made; the row keeps the id and created_at of the first write, and
\* after a second write its score, explanation, artifacts and version are those of
\* the second write (the failure handler's error report).
C5_OneReportPerAnalysis ==
    /\ \A r1, r2 \in reports : r1.analysis_id = r2.analysis_id => r1 = r2
    /\ \A id \in JobIds : (reportLog[id] >= 1) = (ReportsOf(id) # {})
    /\ \A r \in reports :
          /\ r.id = <<r.analysis_id, 1>>
          /\ r.created_at = <<r.analysis_id, 1>>
          /\ reportLog[r.analysis_id] >= 2 =>
                /\ r.credibility_score = None
                /\ r.explanation = [error |-> "DatabaseError", status |-> "failed"]
                /\ r.artifacts = "{}"
                /\ r.version = "v1.0"

\* a second report write was made for one analysis_id
C5_Witness == \E id \in JobIds : reportLog[id] = 2 /\ Cardinality(ReportsOf(id)) = 1

\* C6: a video whose probed duration is above MAX_VIDEO_DURATION makes the pipeline
\* raise "Video too long" with only retrieval and the probe invoked (no frame or
\* audio extraction, no detection, no transcription); the job is never done and is
\* failed when process_job returns; a probed duration at or below the cap is not
\* rejected for its length.
C6_DurationCap ==
    \A w \in Workers :
        (run[w] # NoRun /\ run[w].kind = "video" /\ run[w].env.fetch_ok
           /\ run[w].env.probe = "ok") =>
            LET id == job[w].analysis_id
                duration == run[w].env.duration
            IN
            /\ duration > MAX_VIDEO_DURATION =>
                 /\ run[w].raised /\ run[w].error = "Video too long"
                 /\ run[w].invoked = {"fetch", "probe"}
                 /\ run[w].detect_calls = 0
                 /\ analyses[id].status \in {"processing", "failed"}
                 /\ pc[w] = "returned" => analyses[id].status = "failed"
            /\ duration <= MAX_VIDEO_DURATION => run[w].error # "Video too long"

\* a video one second over the cap, process_job returned
C6_Witness ==
    \E w \in Workers :
        /\ run[w] # NoRun /\ run[w].kind = "video"
        /\ run[w].env.probe = "ok" /\ run[w].env.duration = MAX_VIDEO_DURATION + 1
        /\ pc[w] = "returned"
        /\ analyses[job[w].analysis_id].status = "failed"

\* C7, as claimed: for every number of extracted frames the sampler selects at most
\* 10, and no video job makes more than 10 detection calls or has more than 10
\* frame results.
C7_AtMostTenFrames ==
    /\ output.kind = "frames" => Len(output.result) <= 10
    /\ \A w \in Workers :
          (run[w] # NoRun /\ run[w].kind = "video") =>
              /\ run[w].detect_calls <= 10
              /\ ~run[w].raised => Len(run[w].results.frame_analysis) <= 10

\* C8, as claimed: whatever way the probe fails, the video pipeline does not raise
\* the probe's error, and a pipeline that returns carries the zeroed MediaInfo.
C8_ProbeFailureDegrades ==
    \A w \in Workers :
        (run[w] # NoRun /\ run[w].kind = "video" /\ run[w].env.fetch_ok
           /\ run[w].env.probe \in ProbeFailures) =>
            /\ ~(run[w].raised /\ run[w].error = run[w].env.probe)
            /\ "frames" \in run[w].invoked
            /\ ~run[w].raised => run[w].results.video_info = ZeroedInfo

\* C9, as claimed: the image scorer reports blurred faces exactly when some face has
\* a blurred likelihood of LIKELY or VERY_LIKELY, and two faces of confidence 0.9,
\* neither of them so blurred, with no spoof signal and no artificial label, score
\* exactly 0.80 with no factors.
C9_BlurredRule ==
    (input.kind = "image" /\ output.kind = "image") =>
        LET faces == input.signals.faces
            blurred == \E i \in DOMAIN faces :
                          LikelihoodName(faces[i].blurred_likelihood)
                             \in {"LIKELY", "VERY_LIKELY"}
            factors == output.result.explanation.primary_factors
            penalised == \E i \in DOMAIN factors, k \in 1..MaxFaces :
                            factors[i] = ToString(k) \o " blurred faces detected"
        IN  /\ penalised = blurred
            /\ (/\ Len(faces) = 2
                /\ \A i \in DOMAIN faces : faces[i].detection_confidence = 90
                /\ ~blurred
                /\ LikelihoodName(input.signals.spoof) \notin {"LIKELY", "VERY_LIKELY"}
                /\ input.signals.labels \in {<<>>, <<"Cat">>})
               => /\ output.result.credibility_score = 80
                  /\ factors = <<>>

\* C10: a job whose status is done has exactly one stored report, and that report's
\* score is a number (in hundredths, 0..100), not None.
C10_DoneHasScoredReport ==
    \A id \in JobIds :
        analyses[id].status = "done" =>
            \E r \in reports :
                /\ ReportsOf(id) = {r}
                /\ r.credibility_score # None
                /\ r.credibility_score \in 0..100

\* a job is done
C10_Witness ==
    \E id \in JobIds : analyses[id].status = "done" /\ reportLog[id] = 1

\* number of times value v occurs in sequence s
Occurrences(s, v) == Cardinality({i \in DOMAIN s : s[i] = v})

\* C11: with several workers on one queue, no two workers hold the same job, a job's
\* descriptor is on the queue at most once and only while the job is queued and held
\* by no worker, processing is written at most once per job, and the jobs being
\* processed are held by distinct workers, one job per worker.
C11_OneWorkerPerJob ==
    /\ \A w1, w2 \in Workers :
          (w1 # w2 /\ job[w1] # NoJob /\ job[w2] # NoJob)
             => job[w1].analysis_id # job[w2].analysis_id
    /\ \A i, k \in DOMAIN queue :
          (i # k /\ queue[i].has_keys /\ queue[k].has_keys)
             => queue[i].analysis_id # queue[k].analysis_id
    /\ \A i \in DOMAIN queue :
          queue[i].has_keys =>
             /\ statusLog[queue[i].analysis_id] = <<"queued">>
             /\ \A w \in Workers : job[w] = NoJob \/ job[w].analysis_id # queue[i].analysis_id
    /\ \A id \in JobIds : Occurrences(statusLog[id], "processing") <= 1
    /\ \A w \in Workers :
          pc[w] \in {"pipeline", "store_results", "set_done"}
             => job[w] # NoJob /\ analyses[job[w].analysis_id].status = "processing"

\* two workers are processing two jobs at the same time
C11_Witness ==
    \E w1, w2 \in Workers :
        /\ w1 # w2
        /\ pc[w1] = "pipeline" /\ pc[w2] = "pipeline"
        /\ job[w1].analysis_id # job[w2].analysis_id
        /\ analyses[job[w1].analysis_id].status = "processing"
        /\ analyses[job[w2].analysis_id].status = "processing"

\* C12, as claimed: for a video within the duration cap whose retrieval, probe and
\* detection calls succeed, a failure of frame extraction gives an empty frame list,
\* a failure of audio extraction means transcription is not attempted, a failure of
\* transcription gives an empty transcript; the pipeline returns a score in every
\* such case and the job is done when process_job returns.
C12_ExtractionFailuresDegrade ==
    \A w \in Workers :
        (/\ run[w] # NoRun /\ run[w].kind = "video"
         /\ run[w].env.fetch_ok
         /\ ~get_video_info(run[w].env).raised
         /\ ~too_long(get_video_info(run[w].env).info)
         /\ run[w].env.detect_fail_at = 0
         /\ \/ run[w].env.frames # "ok"
            \/ run[w].env.audio # "ok"
            \/ run[w].env.transcribe = "ProviderError") =>
            /\ ~run[w].raised
            /\ run[w].env.frames # "ok" => run[w].results.frame_analysis = <<>>
            /\ run[w].env.audio # "ok" => "transcribe" \notin run[w].invoked
            /\ run[w].env.transcribe = "ProviderError" => run[w].results.transcript = ""
            /\ pc[w] = "returned" => analyses[job[w].analysis_id].status = "done"

\* the factors a text score reports
TextFactors == output.result.explanation.primary_factors

HasFactor(factors, f) == \E i \in DOMAIN factors : factors[i] = f

\* C13: the text scorer reports the AI-pattern factor exactly when there is at least
\* one hit, and the score is 0.90 less min(0.6, 0.2 * hits) less the penalties of the
\* other factors it reports, clamped; 4 hits and no other factor score 0.30.
C13_PatternPenalty ==
    (input.kind = "text" /\ output.kind = "text") =>
        LET h == input.signals.hits
            pattern == IF h >= 1 THEN Min2(60, 20 * h) ELSE 0
            sentence == IF HasFactor(TextFactors, "Unusually long sentences")
                           \/ HasFactor(TextFactors, "Unusually short sentences")
                        THEN 10 ELSE 0
            repetition == IF HasFactor(TextFactors, "High word repetition detected")
                          THEN 20 ELSE 0
        IN  /\ HasFactor(TextFactors, "AI-generated patterns found") = (h >= 1)
            /\ output.result.credibility_score
                  = Max2(0, 90 - pattern - sentence - repetition)
            /\ output.result.explanation.ai_patterns_count = h
            /\ (h = 4 /\ Len(TextFactors) = 1) => output.result.credibility_score = 30
            /\ (h = 0 /\ TextFactors = <<>>) => output.result.credibility_score = 90

\* a text with 4 hits and no other rule triggered
C13_Witness ==
    /\ input.kind = "text" /\ output.kind = "text"
    /\ input.signals.hits = 4
    /\ TextFactors = <<"AI-generated patterns found">>
    /\ output.result.credibility_score = 30

\* C14: a text with no AI-pattern hit, word_count / max(1, sentence_count) in [5, 30]
\* (bounds included) and a unique-word ratio of at least 0.3 (or at most 10 words)
\* scores exactly 0.90 with an empty primary_factors list.
C14_CleanTextScore ==
    (input.kind = "text" /\ output.kind = "text") =>
        LET wc == input.signals.word_count
            sc == Max2(1, input.signals.sentence_count)
            uw == input.signals.unique_words
        IN  (/\ input.signals.hits = 0
             /\ 5 * sc <= wc /\ wc <= 30 * sc
             /\ (10 * uw >= 3 * wc \/ wc <= 10))
            => /\ output.result.credibility_score = 90
               /\ TextFactors = <<>>
               /\ output.result.explanation.structure_analysis = "normal"

\* a text on all three thresholds: 2 sentences of 30 words, 18 of the 60 words unique
C14_Witness ==
    /\ input.kind = "text" /\ output.kind = "text"
    /\ input.signals = [word_count |-> 60, sentence_count |-> 2, unique_words |-> 18,
                        hits |-> 0]
    /\ output.result.credibility_score = 90

\* the factors an image score reports
ImageFactors == output.result.explanation.primary_factors

\* C15, as claimed: an image whose spoof value is LIKELY or VERY_LIKELY and which
\* triggers no other rule (no low average face confidence, no face with a blurred
\* likelihood of LIKELY or VERY_LIKELY, no artificial label) scores exactly 0.40 and
\* reports the spoof factor; any other spoof value never reports it.
C15_SpoofRule ==
    (input.kind = "image" /\ output.kind = "image") =>
        LET faces == input.signals.faces
            spoofed == LikelihoodName(input.signals.spoof) \in {"LIKELY", "VERY_LIKELY"}
            low == faces # <<>> /\ ConfSum(faces) < 70 * Len(faces)
            blurred == \E i \in DOMAIN faces :
                          LikelihoodName(faces[i].blurred_likelihood)
                             \in {"LIKELY", "VERY_LIKELY"}
            artificial == input.signals.labels \notin {<<>>, <<"Cat">>}
        IN  /\ HasFactor(ImageFactors, "Potential spoofing detected") = spoofed
            /\ (spoofed /\ ~low /\ ~blurred /\ ~artificial)
                  => /\ output.result.credibility_score = 40
                     /\ ImageFactors = <<"Potential spoofing detected">>

\* C16: a job whose input_type is not image, video or text never has a pipeline run
\* for it (nothing is fetched, probed, extracted or sent to a provider), is never
\* done, and when process_job returns it is failed with one report that has a null
\* score and the error caught (the unsupported input type, once the dispatch was
\* reached).
C16_UnsupportedKindFails ==
    \A w \in Workers :
        (job[w] # NoJob /\ job[w].input_type \notin {"image", "video", "text"}) =>
            LET id == job[w].analysis_id IN
            /\ pc[w] \notin {"store_results", "set_done"}
            /\ analyses[id].status # "done"
            /\ run[w] # NoRun =>
                 /\ run[w].raised /\ run[w].error = "Unsupported input type"
                 /\ run[w].invoked = {} /\ run[w].detect_calls = 0
                 /\ run[w].env = NoRun
            /\ pc[w] = "returned" =>
                 /\ analyses[id].status = "failed"
                 /\ \E r \in reports :
                      /\ ReportsOf(id) = {r}
                      /\ r.credibility_score = None
                      /\ r.explanation = [error |-> err[w], status |-> "failed"]
                 /\ run[w] # NoRun => err[w] = "Unsupported input type"

\* a job of kind audio went through process_job
C16_Witness ==
    \E w \in Workers :
        /\ job[w].input_type = "audio"
        /\ pc[w] = "returned"
        /\ run[w] # NoRun /\ run[w].error = "Unsupported input type"
        /\ analyses[job[w].analysis_id].status = "failed"

\* C17: the step in which a worker dequeues a payload that cannot be decoded removes
\* that payload from the queue, writes no status and no report, leaves the worker in
\* the loop's handler with no job, and leaves every other worker where it was; from
\* the handler the worker goes back to the blocking dequeue.
C17_UndecodablePayloadSkipped ==
    [][\A w \in Workers :
          /\ (/\ pc[w] = "blpop" /\ pc'[w] \notin {"blpop", "stopped"}
              /\ queue # <<>> /\ ~Head(queue).decodable)
                => /\ queue' = Tail(queue)
                   /\ analyses' = analyses /\ statusLog' = statusLog
                   /\ reports' = reports /\ reportLog' = reportLog
                   /\ pc'[w] = "caught" /\ loopErr'[w] = "JSONDecodeError"
                   /\ job'[w] = NoJob
                   /\ \A v \in Workers \ {w} : pc'[v] = pc[v] /\ job'[v] = job[v]
          /\ (pc[w] = "caught" /\ loopErr[w] = "JSONDecodeError" /\ pc'[w] # pc[w])
                => pc'[w] \in {"blpop", "stopped"}]_vars

\* a worker that met an undecodable payload has processed a later job to done
C17_Witness ==
    \E w \in Workers :
        /\ loopErr[w] = "JSONDecodeError"
        /\ pc[w] = "returned"
        /\ job[w] # NoJob
        /\ analyses[job[w].analysis_id].status = "done"

\* C18: in every state, a job's finished_at is set exactly when its status is done or
\* failed: a queued or processing job has a NULL finished_at.
C18_FinishedAtIffTerminal ==
    \A id \in JobIds :
        analyses[id] # NoRow =>
            (analyses[id].finished_at # "NULL") = (analyses[id].status \in {"done", "failed"})

\* one job is processing with no finished_at while another is failed with one
C18_Witness ==
    \E a, b \in JobIds :
        /\ analyses[a].status = "processing" /\ analyses[a].finished_at = "NULL"
        /\ analyses[b].status = "failed" /\ analyses[b].finished_at = "utcnow"

\* the text scorer reported a sentence-length factor
SentencePenalised ==
    \/ HasFactor(TextFactors, "Unusually long sentences")
    \/ HasFactor(TextFactors, "Unusually short sentences")

\* word_count / max(1, sentence_count) is above 30 or below 5
OutsideSentenceBounds(signals) ==
    LET sc == Max2(1, signals.sentence_count)
    IN  signals.word_count > 30 * sc \/ signals.word_count < 5 * sc

\* C19, as claimed: for every text, one with zero words included, the sentence-length
\* penalty is applied exactly when word_count / max(1, sentence_count) is above 30 or
\* below 5.
C19_AsClaimed ==
    (input.kind = "text" /\ output.kind = "text") =>
        SentencePenalised = OutsideSentenceBounds(input.signals)

\* C19, amended: for every text with at least one word the sentence-length penalty
\* (0.10, one factor) is applied exactly when word_count / max(1, sentence_count) is
\* above 30 or below 5, the bounds 5 and 30 not triggering it; a text with zero words
\* is not penalised.
C19_SentenceLengthPenalty ==
    (input.kind = "text" /\ output.kind = "text") =>
        LET wc == input.signals.word_count
            h == input.signals.hits
            rest == (IF h >= 1 THEN Min2(60, 20 * h) ELSE 0)
                    + (IF HasFactor(TextFactors, "High word repetition detected")
                       THEN 20 ELSE 0)
        IN  /\ SentencePenalised = (wc > 0 /\ OutsideSentenceBounds(input.signals))
            /\ output.result.credibility_score
                  = Max2(0, 90 - rest - (IF SentencePenalised THEN 10 ELSE 0))
            /\ wc = 0 => output.result.credibility_score = 90 /\ TextFactors = <<>>

\* an empty text was scored: no factor, 0.90
C19_Witness ==
    /\ input.kind = "text" /\ output.kind = "text"
    /\ input.signals.word_count = 0
    /\ output.result.credibility_score = 90
    /\ TextFactors = <<>>

\* the frames at indices 0, s, 2s, ... below n, as positions 1..n of the list
SampledPositions(n) ==
    LET s == Max2(1, n \div 10) IN {k + 1 : k \in {i \in 0..(n - 1) : i % s = 0}}

StrictlyIncreasing(s) == \A i, k \in DOMAIN s : i < k => s[i] < s[k]

BlurredFactors == {ToString(n) \o " blurred faces detected" : n \in 1..(MaxFaces + 1)}

FixedPenalty(kind, factor) ==
    CASE kind = "image" /\ factor = "Low face detection confidence" -> 30
      [] kind = "image" /\ factor \in BlurredFactors -> 20
      [] kind = "image" /\ factor = "Potential spoofing detected" -> 40
      [] kind = "image" /\ factor = "Artificial content indicators" -> 30
      [] kind = "video" /\ factor = "Inconsistent face detection across frames" -> 20
      [] kind = "video" /\ factor = "Low average face detection confidence" -> 30
      [] kind = "video" /\ factor = "AI-generated speech patterns detected" -> 40
      [] kind = "video" /\ factor = "Low resolution video" -> 10
      [] kind = "text" /\ factor = "AI-generated patterns found"
            -> Min2(60, 20 * input.signals.hits)
      [] kind = "text" /\ factor = "Unusually long sentences" -> 10
      [] kind = "text" /\ factor = "Unusually short sentences" -> 10
      [] kind = "text" /\ factor = "High word repetition detected" -> 20

BaseScore(kind) == CASE kind = "image" -> 80 [] kind = "video" -> 75 [] kind = "text" -> 90

ScoredKinds == {"image", "video", "text"}

\* C21: for each media kind the returned score is max(0, min(1, base - the sum of the
\* fixed penalties of all the rules that triggered)) with base 0.80 (image), 0.75
\* (video), 0.90 (text): penalties of rules triggered together add up and the result
\* is clamped once, at the end (an image with all four rules has a total of 1.20 and
\* scores 0).
C21_AdditivePenalties ==
    (input.kind \in ScoredKinds /\ output.kind = input.kind) =>
        LET factors == output.result.explanation.primary_factors
            total == SeqSum([i \in DOMAIN factors |-> FixedPenalty(input.kind, factors[i])])
        IN  /\ output.result.credibility_score
                  = Max2(0, Min2(100, BaseScore(input.kind) - total))
            /\ (input.kind = "image" /\ Len(factors) = 4)
                  => total = 120 /\ output.result.credibility_score = 0

\* a video with three rules triggered together: 0.30 + 0.40 + 0.10 exceed the base
C21_Witness ==
    /\ input.kind = "video" /\ output.kind = "video"
    /\ output.result.explanation.primary_factors
          = <<"Low average face detection confidence",
              "AI-generated speech patterns detected", "Low resolution video">>
    /\ output.result.credibility_score = 0

Count(conditions) == Cardinality({i \in DOMAIN conditions : conditions[i]})

\* the conditions of the rules of each scoring function, on the function's input
TriggeredRules ==
    LET s == input.signals IN
    CASE input.kind = "image" ->
           << s.faces # <<>> /\ ConfSum(s.faces) < 70 * Len(s.faces),
              \E i \in DOMAIN s.faces :
                  ContainsLIKELY(LikelihoodName(s.faces[i].blurred_likelihood)),
              LikelihoodName(s.spoof) \in {"LIKELY", "VERY_LIKELY"},
              \E i \in DOMAIN s.labels : is_artificial([description |-> s.labels[i]]) >>
      [] input.kind = "video" ->
           LET counts == [i \in DOMAIN s.faces |-> Len(s.faces[i])]
               all == Concat(s.faces)
           IN << s.faces # <<>> /\ SeqMax(counts) - SeqMin(counts) > 2,
                 all # <<>> /\ ConfSum(all) < 60 * Len(all),
                 \E i \in DOMAIN ai_phrases :
                     PhraseIn(ai_phrases[i], LowerTranscript(s.transcript)),
                 s.width < 720 >>
      [] input.kind = "text" ->
           << s.hits > 0,
              s.word_count > 0 /\ OutsideSentenceBounds(s),
              s.word_count > 10 /\ 10 * s.unique_words < 3 * s.word_count >>

\* C22: primary_factors holds exactly one entry for each rule that subtracted a
\* penalty and none for a rule that did not: its length is the number of triggered
\* rules, no entry is repeated, and it is empty exactly when nothing was subtracted
\* from the base score.
C22_FactorsMatchRules ==
    (input.kind \in ScoredKinds /\ output.kind = input.kind) =>
        LET factors == output.result.explanation.primary_factors
            total == SeqSum([i \in DOMAIN factors |-> FixedPenalty(input.kind, factors[i])])
        IN  /\ Len(factors) = Count(TriggeredRules)
            /\ \A i, j \in DOMAIN factors : factors[i] = factors[j] => i = j
            /\ (factors = <<>>) = (output.result.credibility_score = BaseScore(input.kind))
            /\ factors # <<>> => output.result.credibility_score < BaseScore(input.kind)
            /\ (Count(TriggeredRules) = 0) = (total = 0)

\* a text that triggers two of the three rules and reports two factors
C22_Witness ==
    /\ input.kind = "text" /\ output.kind = "text"
    /\ Count(TriggeredRules) = 2
    /\ output.result.explanation.primary_factors
          = <<"Unusually long sentences", "High word repetition detected">>
    /\ output.result.credibility_score = 60

\* the vision provider's call fails in the run of worker w: the batched call of an
\* image, or the detection call of a sampled frame of a video
VisionCallFails(w) ==
    LET env == run[w].env IN
    \/ /\ run[w].kind = "image"
       /\ env.fetch_ok /\ env.open_ok /\ ~env.annotate_ok
    \/ /\ run[w].kind = "video"
       /\ env.fetch_ok
       /\ ~get_video_info(env).raised /\ ~too_long(get_video_info(env).info)
       /\ ~extract_frames(env).raised
       /\ env.audio # "FileNotFoundError"
       /\ env.detect_fail_at \in 1..Len(sample_frames(extract_frames(env).frame_paths))

\* C23: a failed call to the vision provider is fatal to the job.  When the batched
\* detection call of an image, or the detection call of any sampled frame of a video,
\* fails, the pipeline raises at that call: the remaining sampled frames are not
\* analysed, the job is never Done, no report with a score is stored for it, and when
\* process_job returns the job is Failed with the error report.
C23_VisionFailureFatal ==
    \A w \in Workers :
        (run[w] # NoRun /\ VisionCallFails(w)) =>
            LET id == job[w].analysis_id
                env == run[w].env
            IN
            /\ run[w].raised /\ run[w].error = "ProviderError"
            /\ run[w].kind = "image" => run[w].detect_calls = 1
            /\ run[w].kind = "video" =>
                 /\ run[w].detect_calls = env.detect_fail_at
                 /\ run[w].detect_calls
                       <= Len(sample_frames(extract_frames(env).frame_paths))
                 /\ "transcribe" \notin run[w].invoked
            /\ analyses[id].status \in {"processing", "failed"}
            /\ \A r \in ReportsOf(id) : r.credibility_score = None
            /\ pc[w] = "returned" =>
                 /\ analyses[id].status = "failed"
                 /\ \E r \in reports :
                      /\ ReportsOf(id) = {r}
                      /\ r.explanation = [error |-> "ProviderError", status |-> "failed"]

\* the detection call of the second of twelve sampled frames failed: two calls were
\* made, ten frames were left, and process_job returned with the job Failed
C23_Witness ==
    \E w \in Workers :
        /\ run[w] # NoRun /\ run[w].kind = "video" /\ VisionCallFails(w)
        /\ run[w].env.n = 12
        /\ run[w].detect_calls = 2
        /\ pc[w] = "returned"
        /\ analyses[job[w].analysis_id].status = "failed"
        /\ \A r \in ReportsOf(job[w].analysis_id) : r.credibility_score = None

\* C24: the worker never re-enqueues.  A step of a worker leaves the queue as it is
\* or removes its head; a step that lengthens the queue is a producer's (no worker
\* moves) and pushes a job that was never dequeued; the descriptor a worker dequeues
\* is nowhere on the queue afterwards, so it is processed at most once; and the row
\* of a Failed job never changes again.
C24_NoReenqueue ==
    [][/\ (\E w \in Workers : pc'[w] # pc[w])
            => \/ queue' = queue
               \/ queue # <<>> /\ queue' = Tail(queue)
       /\ Len(queue') > Len(queue) =>
            /\ pc' = pc /\ job' = job
            /\ queue' # <<>> /\ queue = SubSeq(queue', 1, Len(queue') - 1)
            /\ Last(queue').has_keys =>
                 /\ statusLog'[Last(queue').analysis_id] = <<"queued">>
                 /\ reportLog[Last(queue').analysis_id] = 0
                 /\ analyses[Last(queue').analysis_id] = NoRow
                       \/ Last(queue').analysis_id \in inFlight
       /\ \A w \in Workers :
            (job'[w] # job[w] /\ job'[w] # NoJob)
               => /\ job'[w].analysis_id \notin QueuedIds(queue')
                  /\ Occurrences(statusLog[job'[w].analysis_id], "processing") = 0
       /\ \A id \in JobIds :
            (analyses[id] # NoRow /\ analyses[id].status = "failed")
               => analyses'[id] = analyses[id] /\ id \notin QueuedIds(queue')]_vars

\* a job has failed, its worker is back at the blocking dequeue holding nothing, and
\* the queue is empty: nothing will process the job again
C24_Witness ==
    \E id \in JobIds :
        /\ analyses[id] # NoRow /\ analyses[id].status = "failed"
        /\ reportLog[id] = 1
        /\ queue = <<>> /\ inFlight = {}
        /\ \A w \in Workers : pc[w] = "blpop" /\ job[w] = NoJob

\* the transcript factor of a video score
SpeechPenalised ==
    HasFactor(output.result.explanation.primary_factors,
              "AI-generated speech patterns detected")

\* C25, as claimed: the video scorer applies the -0.40 transcript penalty exactly when
\* the lower-cased transcript contains a phrase of the list the text pipeline scans
\* for; a transcript containing "as a language model" is penalised.
C25_AsClaimed ==
    (input.kind = "video" /\ output.kind = "video") =>
        SpeechPenalised
           = (\E i \in DOMAIN ai_patterns :
                 PhraseIn(ai_patterns[i], LowerTranscript(input.signals.transcript)))

\* C25, amended: the video scorer applies the -0.40 transcript penalty exactly when
\* the lower-cased transcript contains one of its own three phrases, "as an ai",
\* "i cannot" or "i don't have personal"; "as a language model" is not penalised and
\* "I cannot say" is.
C25_TranscriptPenalty ==
    (input.kind = "video" /\ output.kind = "video") =>
        LET text == LowerTranscript(input.signals.transcript)
            others == SelectSeq(output.result.explanation.primary_factors,
                                LAMBDA f : f # "AI-generated speech patterns detected")
            rest == SeqSum([i \in DOMAIN others |-> FixedPenalty("video", others[i])])
        IN  /\ SpeechPenalised
                  = (\E p \in {"as an ai", "i cannot", "i don't have personal"} :
                        PhraseIn(p, text))
            /\ output.result.credibility_score
                  = Max2(0, 75 - rest - (IF SpeechPenalised THEN 40 ELSE 0))
            /\ input.signals.transcript = "as a language model" => ~SpeechPenalised
            /\ input.signals.transcript = "I cannot say" => SpeechPenalised

\* a transcript with a phrase of the text pipeline's list only: scored 0.75, no factor
C25_Witness ==
    /\ input.kind = "video" /\ output.kind = "video"
    /\ input.signals.transcript = "as a language model"
    /\ output.result.explanation.primary_factors = <<>>
    /\ output.result.credibility_score = 75

\* C26: the row of a job is recorded with status queued before its descriptor is
\* pushed.  Between the two halves of an upload the row is there, queued, and no
\* descriptor of it exists; every descriptor on the queue, the next one to be
\* dequeued in particular, names an existing row whose status is queued; and the row
\* a worker is about to write processing to exists and is still queued.
C26_RowBeforeDescriptor ==
    /\ \A id \in inFlight :
          /\ analyses[id] # NoRow /\ analyses[id].status = "queued"
          /\ id \notin QueuedIds(queue)
          /\ \A w \in Workers : job[w] = NoJob \/ job[w].analysis_id # id
    /\ \A id \in QueuedIds(queue) :
          /\ analyses[id] # NoRow
          /\ analyses[id].status = "queued" /\ analyses[id].finished_at = "NULL"
    /\ \A w \in Workers :
          pc[w] = "set_processing" =>
             /\ job[w] # NoJob
             /\ analyses[job[w].analysis_id] # NoRow
             /\ analyses[job[w].analysis_id].status = "queued"
    /\ \A w \in Workers :
          job[w] # NoJob => analyses[job[w].analysis_id] # NoRow

\* one upload is between its insert and its push while a worker has dequeued the
\* descriptor of another and is about to write processing
C26_Witness ==
    \E id \in JobIds, w \in Workers :
        /\ id \in inFlight
        /\ pc[w] = "set_processing"
        /\ job[w].analysis_id # id
        /\ analyses[job[w].analysis_id].input_type = "video"
        /\ analyses[job[w].analysis_id].status = "queued"

\* the job's row says processing and no worker holds the job
Orphaned(id) ==
    /\ analyses[id] # NoRow /\ analyses[id].status = "processing"
    /\ \A w \in Workers : job[w] = NoJob \/ job[w].analysis_id # id

\* C27: when a worker stops after it wrote processing for a job and before it wrote
\* the job's terminal status, the job is left with status processing, held by no
\* worker and with no descriptor on the queue; and from then on no step of any
\* worker or producer changes its row, pushes its descriptor or makes a worker hold
\* it: the status is processing in every later state.
C27_CrashLeavesProcessing ==
    [][/\ \A w \in Workers :
            (/\ pc[w] # "stopped" /\ pc'[w] = "stopped"
             /\ job[w] # NoJob
             /\ analyses[job[w].analysis_id].status = "processing")
               => /\ analyses'[job[w].analysis_id] = analyses[job[w].analysis_id]
                  /\ \A v \in Workers : job'[v] = NoJob
                                          \/ job'[v].analysis_id # job[w].analysis_id
                  /\ job[w].analysis_id \notin QueuedIds(queue')
       /\ \A id \in JobIds :
            Orphaned(id)
               => /\ analyses'[id] = analyses[id]
                  /\ \A v \in Workers : job'[v] = NoJob \/ job'[v].analysis_id # id
                  /\ id \notin QueuedIds(queue) \cup QueuedIds(queue')
                  /\ id \notin inFlight]_vars

\* a worker stopped in the middle of a job: the job's row says processing, nothing
\* was stored for it, and the other worker is waiting on an empty queue
C27_Witness ==
    \E id \in JobIds, w, v \in Workers :
        /\ Orphaned(id)
        /\ pc[w] = "stopped" /\ faults = 1
        /\ statusLog[id] = <<"queued", "processing">>
        /\ reportLog[id] = 0
        /\ v # w /\ pc[v] = "blpop"
        /\ queue = <<>> /\ inFlight = {}

\* C28: in every reachable state, a job whose status is failed has no stored report
\* with a score: a scored report written on the success path is never attached to a
\* failed job, not between the two writes of the failure handler and not when a
\* database write fails.
C28_FailedHasNoScore ==
    \A id \in JobIds :
        (analyses[id] # NoRow /\ analyses[id].status = "failed")
            => \A r \in ReportsOf(id) : r.credibility_score = None

Terminal(id) == analyses[id] # NoRow /\ analyses[id].status \in {"done", "failed"}

\* C29: with workers that keep running and external calls that all return or raise,
\* every job whose descriptor a worker has dequeued eventually has status done or
\* failed, unless a worker stopped; no such job stays in processing forever.
C29_EveryJobTerminates ==
    \A id \in JobIds :
        (\E w \in Workers : job[w] # NoJob /\ job[w].analysis_id = id)
            ~> (Terminal(id) \/ \E w \in Workers : pc[w] = "stopped")

\* C30: degrading on a probe failure changes the score.  A video whose probe failure
\* _get_video_info catches is never rejected for its length (its duration is 0) and,
\* when its pipeline returns, is scored with width 0: the "Low resolution video"
\* factor is reported and 0.10 is subtracted whatever the real width is; with no
\* other rule triggered the score is 0.65, and the job is done when process_job
\* returns.
C30_ProbeDegradeNotNeutral ==
    \A w \in Workers :
        (run[w] # NoRun /\ run[w].kind = "video" /\ run[w].env.fetch_ok
           /\ run[w].env.probe \in ProbeCaught) =>
            LET id == job[w].analysis_id
                results == run[w].results
            IN
            /\ run[w].error # "Video too long"
            /\ ~run[w].raised =>
                 LET factors == results.explanation.primary_factors IN
                 /\ results.video_info = ZeroedInfo
                 /\ results.explanation.video_duration = 0
                 /\ HasFactor(factors, "Low resolution video")
                 /\ results.credibility_score <= 65
                 /\ results.credibility_score
                       = Max2(0, 75 - SeqSum([i \in DOMAIN factors |->
                                                FixedPenalty("video", factors[i])]))
                 /\ Len(factors) = 1 => results.credibility_score = 65
                 /\ analyses[id].status \in {"processing", "done", "failed"}
                 /\ (pc[w] = "returned" /\ err[w] = "") =>
                      /\ analyses[id].status = "done"
                      /\ \A r \in ReportsOf(id) :
                            r.credibility_score = results.credibility_score

\* ffprobe exited non-zero for a video with frames and plain speech: the job is done
\* with a score of 0.65 and the low-resolution factor alone
C30_Witness ==
    \E w \in Workers :
        /\ run[w] # NoRun /\ run[w].kind = "video" /\ ~run[w].raised
        /\ run[w].env.probe = "CalledProcessError"
        /\ run[w].env.n = 3 /\ run[w].env.transcribe = "Hello world"
        /\ run[w].results.explanation.primary_factors = <<"Low resolution video">>
        /\ run[w].results.credibility_score = 65
        /\ pc[w] = "returned"
        /\ analyses[job[w].analysis_id].status = "done"

=============================================================================
